---- MODULE Spec2Model ----
(***************************************************************************)
(* chordvery: chord detection from a set of held MIDI notes, chord naming  *)
(* and parsing, roman numerals, and the progression suggestion tree.       *)
(*                                                                         *)
(* Text is a sequence of one-character strings, so that formatting and     *)
(* parsing are computed character by character.  An Option<T> is the       *)
(* record None or Some(x).                                                 *)
(***************************************************************************)
EXTENDS Integers, Sequences, FiniteSets, TLC

VARIABLES
    phase,          \* position of the driver: which operation ran last
    notes,          \* the HashSet<u8> handed to Chord::detect
    chord,          \* Option<Chord>: the chord the operations act on
    text,           \* the String produced by Chord::name
    parsed,         \* the result of Chord::from_name(text)
    key,            \* Option<Note>: the key handed to roman_numeral / suggest
    numeral,        \* the String produced by Chord::roman_numeral
    extended_mode,  \* ProgressionTree.extended_mode
    tree,           \* Option<ProgressionNode>: the result of suggest
    the_note,       \* Option<Note>: the note Note::display acts on
    entries,        \* ChordHistory.entries, oldest first
    max_entries,    \* ChordHistory.max_entries
    fade,           \* ChordHistory.fade
    before,         \* ChordHistory.entries as the last operation found them
    mode,           \* App.mode
    midi_input,     \* App.midi is Some: an input port is connected
    current_chord,  \* App.current_chord
    last_notes,     \* App.last_notes
    should_quit,    \* App.should_quit
    extended_chords,\* App.extended_chords
    show_help,      \* App.show_help
    held_notes,     \* the HashSet<u8> inside MidiInput.held_notes
    lock,           \* who holds the Mutex around held_notes
    tick_pc,        \* position of the main thread inside App::tick
    cb_msg,         \* the message the MIDI callback is handling, if any
    prev,           \* current_chord and key as the last tick found them
    redetect        \* current_chord, key, entries of an App whose tick
                    \* runs detect on every cycle

\* the variables of the App and of its MIDI input
app_vars == <<mode, midi_input, current_chord, last_notes, should_quit,
              extended_chords, show_help, held_notes, lock, tick_pc, cb_msg,
              prev, redetect>>

vars == <<phase, notes, chord, text, parsed, key, numeral, extended_mode, tree,
          the_note, entries, max_entries, fade, before, app_vars>>

(***************************************************************************)
(* Bounds of the model.                                                    *)
(***************************************************************************)
\* lowest note number of the input window
NoteFloor == 59
\* number of consecutive note numbers in the input window
NoteSpan == 14
\* largest number of notes held at once
MaxNotes == 4

\* the largest of the small capacities a ChordHistory is built with
MaxEntries == 9

(***************************************************************************)
(* Option                                                                  *)
(***************************************************************************)
None == [some |-> FALSE]

Some(x) == [some |-> TRUE, val |-> x]

IsSome(o) == o.some

\* the outcome of a call that aborts (a Rust panic) instead of returning
Panic == [some |-> FALSE, panic |-> TRUE]

(***************************************************************************)
(* theory/note.rs                                                          *)
(***************************************************************************)
NOTE_NAMES ==
    << <<"C">>, <<"C", "#">>, <<"D">>, <<"D", "#">>, <<"E">>, <<"F">>,
       <<"F", "#">>, <<"G">>, <<"G", "#">>, <<"A">>, <<"A", "#">>, <<"B">> >>

Note_new(midi) == [midi |-> midi]

Note_pitch_class(note) == note.midi % 12

Note_name(note) == NOTE_NAMES[Note_pitch_class(note) + 1]

(***************************************************************************)
(* theory/quality.rs                                                       *)
(***************************************************************************)
Quality ==
    {"Major", "Minor", "Diminished", "Augmented", "Major7", "Minor7",
     "Dominant7", "Diminished7", "HalfDim7", "MinorMajor7", "Augmented7",
     "Sus2", "Sus4", "Add9", "Unknown"}

Quality_symbol(quality) ==
    CASE quality = "Major" -> << >>
      [] quality = "Minor" -> <<"m">>
      [] quality = "Diminished" -> <<"d", "i", "m">>
      [] quality = "Augmented" -> <<"+">>
      [] quality = "Major7" -> <<"m", "a", "j", "7">>
      [] quality = "Minor7" -> <<"m", "7">>
      [] quality = "Dominant7" -> <<"7">>
      [] quality = "Diminished7" -> <<"d", "i", "m", "7">>
      [] quality = "HalfDim7" -> <<"m", "7", "b", "5">>
      [] quality = "MinorMajor7" -> <<"m", "M", "a", "j", "7">>
      [] quality = "Augmented7" -> <<"+", "7">>
      [] quality = "Sus2" -> <<"s", "u", "s", "2">>
      [] quality = "Sus4" -> <<"s", "u", "s", "4">>
      [] quality = "Add9" -> <<"a", "d", "d", "9">>
      [] quality = "Unknown" -> <<"?">>

\* the interval slice, in the order the source lists it
Quality_intervals(quality) ==
    CASE quality = "Major" -> <<0, 4, 7>>
      [] quality = "Minor" -> <<0, 3, 7>>
      [] quality = "Diminished" -> <<0, 3, 6>>
      [] quality = "Augmented" -> <<0, 4, 8>>
      [] quality = "Major7" -> <<0, 4, 7, 11>>
      [] quality = "Minor7" -> <<0, 3, 7, 10>>
      [] quality = "Dominant7" -> <<0, 4, 7, 10>>
      [] quality = "Diminished7" -> <<0, 3, 6, 9>>
      [] quality = "HalfDim7" -> <<0, 3, 6, 10>>
      [] quality = "MinorMajor7" -> <<0, 3, 7, 11>>
      [] quality = "Augmented7" -> <<0, 4, 8, 10>>
      [] quality = "Sus2" -> <<0, 2, 7>>
      [] quality = "Sus4" -> <<0, 5, 7>>
      [] quality = "Add9" -> <<0, 4, 7, 14>>
      [] quality = "Unknown" -> << >>

all_triads == <<"Major", "Minor", "Diminished", "Augmented", "Sus2", "Sus4">>

all_sevenths ==
    <<"Major7", "Minor7", "Dominant7", "Diminished7", "HalfDim7",
      "MinorMajor7", "Augmented7">>

(***************************************************************************)
(* theory/chord.rs: Chord::new, Chord::detect                              *)
(***************************************************************************)
Chord_new(root, quality) == [root |-> root, quality |-> quality, bass |-> None]

\* notes.iter().min()
MinNote(ns) == CHOOSE m \in ns : \A n \in ns : m <= n

\* notes.iter().map(|&n| n % 12).collect()
PitchClasses(ns) == {n % 12 : n \in ns}

\* the interval set of the pitch classes seen from a candidate root
RootIntervals(pitch_classes, potential_root) ==
    {(pc + 12 - potential_root) % 12 : pc \in pitch_classes}

\* quality.intervals().iter().map(|&i| i % 12).collect()
ReducedIntervals(quality) ==
    {Quality_intervals(quality)[i] % 12 : i \in DOMAIN Quality_intervals(quality)}

IntervalsMatchSubset(intervals, quality_intervals) ==
    intervals \subseteq quality_intervals

\* intervals == quality_intervals
IntervalsMatch(intervals, quality_intervals) == intervals = quality_intervals

ScoreSwapped(is_root_position, is_seventh) ==
    (IF is_root_position THEN 5 ELSE 10) + (IF is_seventh THEN 2 ELSE 0)

Score(is_root_position, is_seventh) ==
    (IF is_root_position THEN 10 ELSE 5) + (IF is_seventh THEN 2 ELSE 0)

BassOfPitchClass(is_root_position, lowest_note) ==
    IF ~is_root_position THEN Some(Note_new((lowest_note % 12) + 60)) ELSE None

BassOf_always(is_root_position, lowest_note) == Some(Note_new(lowest_note))

\* the bass given to a new best match
BassOf(is_root_position, lowest_note) ==
    IF ~is_root_position THEN Some(Note_new(lowest_note)) ELSE None

\* the interval set of every quality, computed once
QualityIntervalSets == [q \in Quality |-> ReducedIntervals(q)]

\* quality.intervals().len() == 4
IsSeventh == [q \in Quality |-> Len(Quality_intervals(q)) = 4]

\* the body of the inner loop: one candidate root, its interval set, one quality
DetectVisit(best, potential_root, intervals, quality, lowest_note) ==
    IF IntervalsMatch(intervals, QualityIntervalSets[quality])
    THEN LET is_root_position == potential_root = lowest_note % 12
             is_seventh == IsSeventh[quality]
             score == Score(is_root_position, is_seventh)
             new_chord == Chord_new(Note_new(potential_root + 60), quality)
         IN  IF score > best.best_score
             THEN [best_match |->
                       Some([new_chord EXCEPT
                                !.bass = BassOf(is_root_position, lowest_note)]),
                   best_score |-> score]
             ELSE best
    ELSE best

QualityScan_with_add9 == all_sevenths \o all_triads \o <<"Add9">>

\* all_sevenths().iter().chain(all_triads().iter())
QualityScan == all_sevenths \o all_triads

\* the inner loop, over the qualities in scan order
RECURSIVE ScanQualities(_, _, _, _, _)
ScanQualities(best, potential_root, intervals, lowest_note, i) ==
    IF i > Len(QualityScan) THEN best
    ELSE ScanQualities(
             DetectVisit(best, potential_root, intervals, QualityScan[i], lowest_note),
             potential_root, intervals, lowest_note, i + 1)

\* the outer loop, over the candidate roots in the order the set yields them
RECURSIVE ScanRoots(_, _, _, _, _)
ScanRoots(best, order, pitch_classes, lowest_note, j) ==
    IF j > Len(order) THEN best
    ELSE ScanRoots(
             ScanQualities(best, order[j], RootIntervals(pitch_classes, order[j]),
                           lowest_note, 1),
             order, pitch_classes, lowest_note, j + 1)

\* the orders in which a HashSet may yield its elements: all of them
RECURSIVE IterOrders(_)
IterOrders(S) ==
    IF S = {} THEN {<< >>}
    ELSE UNION {{<<x>> \o rest : rest \in IterOrders(S \ {x})} : x \in S}

Chord_detect_unknown(ns, order) ==
    IF Cardinality(ns) < 3 \/ Cardinality(PitchClasses(ns)) < 3
    THEN IF ns = {} THEN None
         ELSE Some(Chord_new(Note_new((MinNote(ns) % 12) + 60), "Unknown"))
    ELSE ScanRoots([best_match |-> None, best_score |-> 0], order,
                   PitchClasses(ns), MinNote(ns), 1).best_match

\* Chord::detect, with `order` the iteration order of pitch_classes
Chord_detect(ns, order) ==
    IF Cardinality(ns) < 3 THEN None
    ELSE IF Cardinality(PitchClasses(ns)) < 3 THEN None
    ELSE ScanRoots([best_match |-> None, best_score |-> 0], order,
                   PitchClasses(ns), MinNote(ns), 1).best_match

(***************************************************************************)
(* theory/chord.rs: Chord::name, Chord::roman_numeral                      *)
(***************************************************************************)
\* the two non-ASCII characters of the source, U+00B0 and U+00F8
DegreeSign == "deg"

SlashedO == "oslash"

Chord_name_always_bass(c) ==
    LET base == Note_name(c.root) \o Quality_symbol(c.quality)
    IN  IF IsSome(c.bass) THEN base \o <<"/">> \o Note_name(c.bass.val) ELSE base

\* Chord::name
Chord_name(c) ==
    LET base == Note_name(c.root) \o Quality_symbol(c.quality)
    IN  IF IsSome(c.bass) /\ Note_pitch_class(c.bass.val) # Note_pitch_class(c.root)
        THEN base \o <<"/">> \o Note_name(c.bass.val)
        ELSE base

\* the match on degree
DegreeNumeral(degree) ==
    CASE degree = 0 -> <<"I">>
      [] degree = 1 -> <<"b", "I", "I">>
      [] degree = 2 -> <<"I", "I">>
      [] degree = 3 -> <<"b", "I", "I", "I">>
      [] degree = 4 -> <<"I", "I", "I">>
      [] degree = 5 -> <<"I", "V">>
      [] degree = 6 -> <<"b", "V">>
      [] degree = 7 -> <<"V">>
      [] degree = 8 -> <<"b", "V", "I">>
      [] degree = 9 -> <<"V", "I">>
      [] degree = 10 -> <<"b", "V", "I", "I">>
      [] degree = 11 -> <<"V", "I", "I">>
      [] OTHER -> <<"unreachable!">>

\* char::to_lowercase on the characters a numeral is made of
LowerChar(ch) ==
    CASE ch = "I" -> "i"
      [] ch = "V" -> "v"
      [] OTHER -> ch

\* str::to_lowercase
to_lowercase(s) == [i \in 1..Len(s) |-> LowerChar(s[i])]

is_minor_without_halfdim(quality) == quality \in {"Minor", "Minor7", "MinorMajor7"}

is_minor(quality) == quality \in {"Minor", "Minor7", "MinorMajor7", "HalfDim7"}

is_diminished_seventh_only(quality) == quality = "Diminished7"

is_diminished(quality) == quality \in {"Diminished", "Diminished7"}

\* the match on self.quality that gives the suffix
NumeralSuffix(quality) ==
    CASE quality \in {"Major", "Minor"} -> << >>
      [] quality = "Diminished" -> <<DegreeSign>>
      [] quality = "Augmented" -> <<"+">>
      [] quality = "Major7" -> <<"m", "a", "j", "7">>
      [] quality = "Minor7" -> <<"7">>
      [] quality = "Dominant7" -> <<"7">>
      [] quality = "Diminished7" -> <<DegreeSign, "7">>
      [] quality = "HalfDim7" -> <<SlashedO, "7">>
      [] OTHER -> Quality_symbol(quality)

\* Chord::roman_numeral
Chord_roman_numeral(c, k) ==
    LET degree == (Note_pitch_class(c.root) + 12 - Note_pitch_class(k)) % 12
        numeral_str == DegreeNumeral(degree)
        base == IF is_minor(c.quality) \/ is_diminished(c.quality)
                THEN to_lowercase(numeral_str)
                ELSE numeral_str
    IN  base \o NumeralSuffix(c.quality)

(***************************************************************************)
(* theory/chord.rs: Chord::from_name.  A str is indexed by byte: slicing   *)
(* at a byte offset inside a character aborts.                             *)
(***************************************************************************)
\* char::len_utf8
ByteLen(ch) == IF ch \in {DegreeSign, SlashedO} THEN 2 ELSE 1

\* the byte length of the first j characters of s
RECURSIVE PrefixBytes(_, _)
PrefixBytes(s, j) == IF j = 0 THEN 0 ELSE PrefixBytes(s, j - 1) + ByteLen(s[j])

\* str::len
StrLen(s) == PrefixBytes(s, Len(s))

\* str::is_char_boundary
IsCharBoundary(s, k) == \E j \in 0..Len(s) : PrefixBytes(s, j) = k

\* the number of characters in the first k bytes of s, k a char boundary
CharsBefore(s, k) == CHOOSE j \in 0..Len(s) : PrefixBytes(s, j) = k

\* (&s[..k], &s[k..]), or the abort of a slice off a char boundary
SplitAtByte(s, k) ==
    IF IsCharBoundary(s, k)
    THEN Some(<<SubSeq(s, 1, CharsBefore(s, k)),
                SubSeq(s, CharsBefore(s, k) + 1, Len(s))>>)
    ELSE Panic

\* str::trim, with the space as the only white space of the alphabet
RECURSIVE trim_start(_)
trim_start(s) ==
    IF s # << >> /\ Head(s) = " " THEN trim_start(Tail(s)) ELSE s

RECURSIVE trim_end(_)
trim_end(s) ==
    IF s # << >> /\ s[Len(s)] = " " THEN trim_end(SubSeq(s, 1, Len(s) - 1)) ELSE s

trim(s) == trim_end(trim_start(s))

\* NOTE_NAMES.iter().position(|&n| n == s)
NotePosition(s) ==
    IF \E i \in 1..12 : NOTE_NAMES[i] = s
    THEN Some((CHOOSE i \in 1..12 : NOTE_NAMES[i] = s) - 1)
    ELSE None

\* rest.find('/'): the byte offset of the first '/'
FindSlash(s) ==
    IF \E i \in 1..Len(s) : s[i] = "/"
    THEN Some(PrefixBytes(s, (CHOOSE i \in 1..Len(s) :
                                  s[i] = "/" /\ \A j \in 1..(i - 1) : s[j] # "/") - 1))
    ELSE None

\* the match on quality_str
QualityOfToken(quality_str) ==
    CASE quality_str = << >> -> Some("Major")
      [] quality_str = <<"m">> -> Some("Minor")
      [] quality_str \in {<<"d", "i", "m">>, <<DegreeSign>>} -> Some("Diminished")
      [] quality_str \in {<<"+">>, <<"a", "u", "g">>} -> Some("Augmented")
      [] quality_str \in {<<"m", "a", "j", "7">>, <<"M", "7">>} -> Some("Major7")
      [] quality_str \in {<<"m", "7">>, <<"m", "i", "n", "7">>} -> Some("Minor7")
      [] quality_str \in {<<"7">>, <<"d", "o", "m", "7">>} -> Some("Dominant7")
      [] quality_str \in {<<"d", "i", "m", "7">>, <<DegreeSign, "7">>} -> Some("Diminished7")
      [] quality_str \in {<<"m", "7", "b", "5">>, <<SlashedO, "7">>, <<SlashedO>>}
           -> Some("HalfDim7")
      [] quality_str \in {<<"m", "M", "a", "j", "7">>, <<"m", "M", "7">>} -> Some("MinorMajor7")
      [] quality_str \in {<<"+", "7">>, <<"a", "u", "g", "7">>} -> Some("Augmented7")
      [] quality_str = <<"s", "u", "s", "2">> -> Some("Sus2")
      [] quality_str \in {<<"s", "u", "s", "4">>, <<"s", "u", "s">>} -> Some("Sus4")
      [] quality_str = <<"a", "d", "d", "9">> -> Some("Add9")
      [] OTHER -> None

RootTokenBytesOne(name_str) == 1

\* the byte length of the root token: 2 when the second character is '#'
RootTokenBytes(name_str) ==
    IF StrLen(name_str) >= 2 /\ Len(name_str) >= 2 /\ name_str[2] = "#" THEN 2 ELSE 1

\* the part of Chord::from_name after the root token is split off
ParseAfterRoot(root_str, rest) ==
    LET root_pos == NotePosition(root_str)
        idx == FindSlash(rest)
        quality_str == IF IsSome(idx) THEN SplitAtByte(rest, idx.val).val[1] ELSE rest
        bass_str == IF IsSome(idx)
                    THEN Some(SplitAtByte(rest, idx.val + 1).val[2])
                    ELSE None
        quality == QualityOfToken(quality_str)
    IN  IF ~IsSome(root_pos) THEN None
        ELSE IF ~IsSome(quality) THEN None
        ELSE IF ~IsSome(bass_str)
             THEN Some(Chord_new(Note_new(root_pos.val + 60), quality.val))
        ELSE IF ~IsSome(NotePosition(bass_str.val)) THEN None
        ELSE Some([Chord_new(Note_new(root_pos.val + 60), quality.val) EXCEPT
                      !.bass = Some(Note_new(NotePosition(bass_str.val).val + 60))])

\* Chord::from_name
Chord_from_name(input) ==
    LET name_str == trim(input)
        split == SplitAtByte(name_str, RootTokenBytes(name_str))
    IN  IF name_str = << >> THEN None
        ELSE IF split = Panic THEN Panic
        ELSE ParseAfterRoot(split.val[1], split.val[2])

(***************************************************************************)
(* theory/note.rs: Note::octave, Note::display, Note::from_name.           *)
(* Arithmetic is 8 bits wide.  An overflowing +, * on i8 or + on u8 aborts *)
(* when the build has overflow checks (the dev and test profiles) and      *)
(* wraps when it has none (the release profile).                           *)
(***************************************************************************)
\* u8 as i8
AsI8(u) == IF u >= 128 THEN u - 256 ELSE u

\* i8 as u8
AsU8(i) == i % 256

\* the i8 an out-of-range result wraps to
WrapI8(i) == AsI8(i % 256)

\* i8 / i8, which truncates toward zero
TruncDiv(a, b) == IF a >= 0 THEN a \div b ELSE -((-a) \div b)

Note_octave_no_offset(n) == TruncDiv(AsI8(n.midi), 12)

\* Note::octave
Note_octave(n) == TruncDiv(AsI8(n.midi), 12) - 1

DigitChars == <<"0", "1", "2", "3", "4", "5", "6", "7", "8", "9">>

\* the decimal digits of a natural number
RECURSIVE FormatNat(_)
FormatNat(n) ==
    IF n < 10 THEN <<DigitChars[n + 1]>>
    ELSE FormatNat(n \div 10) \o <<DigitChars[(n % 10) + 1]>>

\* Display for i8, as format!("{}") writes it
FormatInt(i) == IF i < 0 THEN <<"-">> \o FormatNat(-i) ELSE FormatNat(i)

\* Note::display
Note_display(n) == Note_name(n) \o FormatInt(Note_octave(n))

IsDigit(ch) == \E d \in 1..10 : DigitChars[d] = ch

DigitValue(ch) == (CHOOSE d \in 1..10 : DigitChars[d] = ch) - 1

\* the value of a sequence of digits
RECURSIVE DigitsValue(_)
DigitsValue(s) ==
    IF s = << >> THEN 0
    ELSE DigitsValue(SubSeq(s, 1, Len(s) - 1)) * 10 + DigitValue(s[Len(s)])

\* str::parse::<i8>: an optional sign, then at least one digit, in range
ParseI8(s) ==
    LET signed == s # << >> /\ Head(s) \in {"+", "-"}
        digits == IF signed THEN Tail(s) ELSE s
        value == IF signed /\ Head(s) = "-" THEN -DigitsValue(digits)
                 ELSE DigitsValue(digits)
    IN  IF digits = << >> THEN None
        ELSE IF \E i \in 1..Len(digits) : ~IsDigit(digits[i]) THEN None
        ELSE IF value < -128 \/ value > 127 THEN None
        ELSE Some(value)

\* an i8 result: in range, or aborting / wrapping by the build
CheckedI8(i, overflow_checks) ==
    IF i >= -128 /\ i <= 127 THEN Some(i)
    ELSE IF overflow_checks THEN Panic
    ELSE Some(WrapI8(i))

\* a u8 result: in range, or aborting / wrapping by the build
CheckedU8(u, overflow_checks) ==
    IF u >= 0 /\ u <= 255 THEN Some(u)
    ELSE IF overflow_checks THEN Panic
    ELSE Some(u % 256)

\* ((octave + 1) * 12) as u8 + pitch_class
MidiOf(octave, pitch_class, overflow_checks) ==
    LET sum == CheckedI8(octave + 1, overflow_checks)
        product == IF IsSome(sum)
                   THEN CheckedI8(sum.val * 12, overflow_checks)
                   ELSE Panic
        midi == IF IsSome(product)
                THEN CheckedU8(AsU8(product.val) + pitch_class, overflow_checks)
                ELSE Panic
    IN  IF IsSome(midi) THEN Some(Note_new(midi.val)) ELSE Panic

\* Note::from_name, in a build with or without overflow checks
Note_from_name(input, overflow_checks) ==
    LET name_str == trim(input)
        split == SplitAtByte(name_str, RootTokenBytes(name_str))
        pitch_class == NotePosition(split.val[1])
        octave == ParseI8(split.val[2])
    IN  IF name_str = << >> THEN None
        ELSE IF split = Panic THEN Panic
        ELSE IF ~IsSome(pitch_class) THEN None
        ELSE IF ~IsSome(octave) THEN None
        ELSE MidiOf(octave.val, pitch_class.val, overflow_checks)


(***************************************************************************)
(* ui/components/history.rs: ChordHistory.  An entry is a chord and its    *)
(* age, a u8.                                                              *)
(***************************************************************************)
\* u8::saturating_add
saturating_add(a, b) == IF a + b > 255 THEN 255 ELSE a + b

ChordEntry(c, age) == [chord |-> c, age |-> age]

ChordHistory_push_no_dedup(es, max, c) ==
    LET aged == [i \in 1..Len(es) |-> [es[i] EXCEPT !.age = saturating_add(@, 1)]]
        pushed == Append(aged, ChordEntry(c, 0))
    IN  IF Len(pushed) > max THEN Tail(pushed) ELSE pushed

ChordHistory_push_evict_newest(es, max, c) ==
    LET aged == [i \in 1..Len(es) |-> [es[i] EXCEPT !.age = saturating_add(@, 1)]]
        pushed == Append(aged, ChordEntry(c, 0))
    IN  IF es # << >> /\ Chord_name(es[Len(es)].chord) = Chord_name(c) THEN es
        ELSE IF Len(pushed) > max THEN aged
        ELSE pushed

ChordHistory_push_no_aging(es, max, c) ==
    LET pushed == Append(es, ChordEntry(c, 0))
    IN  IF es # << >> /\ Chord_name(es[Len(es)].chord) = Chord_name(c) THEN es
        ELSE IF Len(pushed) > max THEN Tail(pushed)
        ELSE pushed

\* ChordHistory::push
ChordHistory_push(es, max, c) ==
    LET aged == [i \in 1..Len(es) |-> [es[i] EXCEPT !.age = saturating_add(@, 1)]]
        pushed == Append(aged, ChordEntry(c, 0))
    IN  IF es # << >> /\ Chord_name(es[Len(es)].chord) = Chord_name(c) THEN es
        ELSE IF Len(pushed) > max THEN Tail(pushed)
        ELSE pushed

ChordHistory_tick_keeps_age_8(es, f) ==
    LET keep(e) == e.age <= 8
    IN  IF f THEN SelectSeq(es, keep) ELSE es

\* ChordHistory::tick
ChordHistory_tick(es, f) ==
    LET keep(e) == e.age < 8
    IN  IF f THEN SelectSeq(es, keep) ELSE es

(***************************************************************************)
(* theory/progression.rs                                                   *)
(***************************************************************************)
ProgressionNode_new(c) == [chord |-> c, left |-> None, right |-> None]

with_children_left_only(node, left, right) ==
    [node EXCEPT !.left = Some(left)]

\* ProgressionNode::with_children
with_children(node, left, right) ==
    [node EXCEPT !.left = Some(left), !.right = Some(right)]

get_degree_reversed(c, k) ==
    (Note_pitch_class(k) + 12 - Note_pitch_class(c.root)) % 12

\* ProgressionTree::get_degree
get_degree(c, k) ==
    (Note_pitch_class(c.root) + 12 - Note_pitch_class(k)) % 12

extend_quality_major_only(quality) ==
    CASE quality = "Major" -> "Major7"
      [] OTHER -> quality

\* ProgressionTree::extend_quality
extend_quality(quality) ==
    CASE quality = "Major" -> "Major7"
      [] quality = "Minor" -> "Minor7"
      [] OTHER -> quality

SuggestionTable_default_as_V(degree) ==
    CASE degree = 0 -> <<5, "Major", 9, "Minor">>
      [] degree = 2 -> <<7, "Major", 5, "Major">>
      [] degree = 4 -> <<9, "Minor", 5, "Major">>
      [] degree = 5 -> <<7, "Major", 0, "Major">>
      [] degree = 7 -> <<0, "Major", 9, "Minor">>
      [] degree = 9 -> <<2, "Minor", 5, "Major">>
      [] degree = 11 -> <<0, "Major", 4, "Minor">>
      [] OTHER -> <<0, "Major", 9, "Minor">>

SuggestionTable_IV_to_flat_seven(degree) ==
    CASE degree = 0 -> <<5, "Major", 9, "Minor">>
      [] degree = 2 -> <<7, "Major", 5, "Major">>
      [] degree = 4 -> <<9, "Minor", 5, "Major">>
      [] degree = 5 -> <<7, "Major", 10, "Major">>
      [] degree = 7 -> <<0, "Major", 9, "Minor">>
      [] degree = 9 -> <<2, "Minor", 5, "Major">>
      [] degree = 11 -> <<0, "Major", 4, "Minor">>
      [] OTHER -> <<7, "Major", 0, "Major">>

\* the match on degree: (left_interval, left_quality, right_interval, right_quality)
SuggestionTable(degree) ==
    CASE degree = 0 -> <<5, "Major", 9, "Minor">>
      [] degree = 2 -> <<7, "Major", 5, "Major">>
      [] degree = 4 -> <<9, "Minor", 5, "Major">>
      [] degree = 5 -> <<7, "Major", 0, "Major">>
      [] degree = 7 -> <<0, "Major", 9, "Minor">>
      [] degree = 9 -> <<2, "Minor", 5, "Major">>
      [] degree = 11 -> <<0, "Major", 4, "Minor">>
      [] OTHER -> <<7, "Major", 0, "Major">>

\* ProgressionTree::get_suggestions: the pair (left chord, right chord)
get_suggestions(extended, degree, k, current) ==
    LET row == SuggestionTable(degree)
        left_root == Note_new(((Note_pitch_class(k) + row[1]) % 12) + 60)
        right_root == Note_new(((Note_pitch_class(k) + row[3]) % 12) + 60)
        left_quality == IF extended THEN extend_quality(row[2]) ELSE row[2]
        right_quality == IF extended THEN extend_quality(row[4]) ELSE row[4]
    IN  <<Chord_new(left_root, left_quality), Chord_new(right_root, right_quality)>>

\* ProgressionTree::suggest
suggest(extended, current, key_opt) ==
    LET k == IF IsSome(key_opt) THEN key_opt.val ELSE current.root
        degree == get_degree(current, k)
        pair == get_suggestions(extended, degree, k, current)
        left_chord == pair[1]
        right_chord == pair[2]
        left_left_right ==
            get_suggestions(extended, get_degree(left_chord, k), k, left_chord)
        right_left_right ==
            get_suggestions(extended, get_degree(right_chord, k), k, right_chord)
        left_node == with_children(ProgressionNode_new(left_chord),
                                   ProgressionNode_new(left_left_right[1]),
                                   ProgressionNode_new(left_left_right[2]))
        right_node == with_children(ProgressionNode_new(right_chord),
                                    ProgressionNode_new(right_left_right[1]),
                                    ProgressionNode_new(right_left_right[2]))
    IN  with_children(ProgressionNode_new(current), left_node, right_node)

(***************************************************************************)
(* midi/input.rs: the callback of MidiInput::connect.  A message is a      *)
(* sequence of bytes.                                                      *)
(***************************************************************************)
\* message[0] & 0xF0
StatusOf(byte) == byte - (byte % 16)

\* the match on status, applied to the locked set
Callback_update(held, message) ==
    LET status == StatusOf(message[1])
        note == message[2]
        velocity == message[3]
    IN  IF status = 144 /\ velocity > 0 THEN held \cup {note}
        ELSE IF status \in {128, 144} THEN held \ {note}
        ELSE held

(***************************************************************************)
(* ui/app.rs: App::tick, App::handle_key, App::toggle_mode.  The fields    *)
(* tick works on are gathered in a record.                                 *)
(***************************************************************************)
TickFields(cc, k, ln, es) ==
    [current_chord |-> cc, key |-> k, last_notes |-> ln, entries |-> es]

App_on_detected_forgets(a, detected, max) ==
    IF ~IsSome(detected) THEN [a EXCEPT !.current_chord = None]
    ELSE LET c == detected.val
             renamed == \/ ~IsSome(a.current_chord)
                        \/ Chord_name(a.current_chord.val) # Chord_name(c)
         IN  [a EXCEPT !.entries = IF renamed THEN ChordHistory_push(@, max, c) ELSE @,
                       !.key = IF renamed /\ ~IsSome(@) THEN Some(c.root) ELSE @,
                       !.current_chord = Some(c)]

App_on_detected_keeps_first(a, detected, max) ==
    IF ~IsSome(detected) THEN a
    ELSE LET c == detected.val
             renamed == \/ ~IsSome(a.current_chord)
                        \/ Chord_name(a.current_chord.val) # Chord_name(c)
         IN  [a EXCEPT !.entries = IF renamed THEN ChordHistory_push(@, max, c) ELSE @,
                       !.key = IF renamed /\ ~IsSome(@) THEN Some(c.root) ELSE @,
                       !.current_chord = IF IsSome(@) THEN @ ELSE Some(c)]

App_on_detected_key_always(a, detected, max) ==
    IF ~IsSome(detected) THEN a
    ELSE LET c == detected.val
             renamed == \/ ~IsSome(a.current_chord)
                        \/ Chord_name(a.current_chord.val) # Chord_name(c)
         IN  [a EXCEPT !.entries = IF renamed THEN ChordHistory_push(@, max, c) ELSE @,
                       !.key = IF ~IsSome(@) THEN Some(c.root) ELSE @,
                       !.current_chord = Some(c)]

\* the `if let Some(chord) = Chord::detect(&notes)` of App::tick
App_on_detected(a, detected, max) ==
    IF ~IsSome(detected) THEN a
    ELSE LET c == detected.val
             renamed == \/ ~IsSome(a.current_chord)
                        \/ Chord_name(a.current_chord.val) # Chord_name(c)
         IN  [a EXCEPT !.entries = IF renamed THEN ChordHistory_push(@, max, c) ELSE @,
                       !.key = IF renamed /\ ~IsSome(@) THEN Some(c.root) ELSE @,
                       !.current_chord = Some(c)]

\* App::tick from the snapshot on; `detected` is what Chord::detect returns
\* for the snapshot
App_tick(a, snapshot, detected, max, f) ==
    LET b == IF snapshot # a.last_notes
             THEN App_on_detected([a EXCEPT !.last_notes = snapshot], detected, max)
             ELSE a
    IN  [b EXCEPT !.entries = ChordHistory_tick(@, f)]

\* App::tick without the comparison with last_notes
App_tick_always_detect(a, snapshot, detected, max, f) ==
    LET b == App_on_detected([a EXCEPT !.last_notes = snapshot], detected, max)
    IN  [b EXCEPT !.entries = ChordHistory_tick(@, f)]

\* the match of App::toggle_mode
toggle_mode(m) == IF m = "Discovery" THEN "Jam" ELSE "Discovery"

(***************************************************************************)
(* Inputs                                                                  *)
(***************************************************************************)
\* the note numbers the inputs are drawn from
NoteWindow == NoteFloor..(NoteFloor + NoteSpan - 1)

\* the held-note sets handed to Chord::detect
NoteSets == {ns \in SUBSET NoteWindow : Cardinality(ns) <= MaxNotes}

\* the chords handed to name, roman_numeral and suggest
ChordInputs ==
    {[root |-> Note_new(r), quality |-> q, bass |-> b] :
        r \in NoteWindow, q \in Quality,
        b \in {None} \cup {Some(Note_new(m)) : m \in NoteWindow}}

\* the keys handed to roman_numeral and suggest
KeyInputs == {Note_new(m) : m \in NoteWindow}

\* the texts handed to Note::from_name: every spelling with every octave an
\* i8 holds, and texts that are no note
NoteTexts ==
    {NOTE_NAMES[i] \o FormatInt(o) : i \in 1..12, o \in -128..127}
    \cup {<< >>, <<" ">>, <<"C">>, <<"C", "#">>, <<"X", "4">>, <<"c", "4">>,
          <<"C", "+", "4">>, <<"C", "-">>, <<"C", "1", "2", "8">>,
          <<"C", "-", "1", "2", "9">>, <<"C", "4", "b">>, <<" ", "A", "0", " ">>,
          <<"E", "#", "4">>, <<SlashedO, "4">>, <<SlashedO, "#", "4">>}

\* the quality tokens of the match in Chord::from_name
QualityAliases ==
    {<< >>, <<"m">>, <<"d", "i", "m">>, <<DegreeSign>>, <<"+">>, <<"a", "u", "g">>,
     <<"m", "a", "j", "7">>, <<"M", "7">>, <<"m", "7">>, <<"m", "i", "n", "7">>,
     <<"7">>, <<"d", "o", "m", "7">>, <<"d", "i", "m", "7">>, <<DegreeSign, "7">>,
     <<"m", "7", "b", "5">>, <<SlashedO, "7">>, <<SlashedO>>,
     <<"m", "M", "a", "j", "7">>, <<"m", "M", "7">>, <<"+", "7">>,
     <<"a", "u", "g", "7">>, <<"s", "u", "s", "2">>, <<"s", "u", "s", "4">>,
     <<"s", "u", "s">>, <<"a", "d", "d", "9">>}

\* the texts handed to Chord::from_name: a root token, a quality token and
\* a bass part, each well or ill formed, with or without spaces around
ChordTexts ==
    LET roots == {NOTE_NAMES[i] : i \in 1..12}
                 \cup {<< >>, <<"H">>, <<"c">>, <<"#">>, <<"b">>,
                       <<SlashedO>>, <<DegreeSign>>, <<SlashedO, "#">>}
        qualities == QualityAliases
                     \cup {<<"M">>, <<"m", "a", "j">>, <<"9">>, <<" ">>, <<"m", " ">>}
        basses == {<< >>, <<"/">>, <<"/", "H">>, <<"/", "e">>, <<"/", " ", "E">>,
                   <<"/", "E", "/", "G">>, <<"/", "/", "E">>, <<"/", SlashedO>>,
                   <<"/", "E", "b">>}
                  \cup {<<"/">> \o NOTE_NAMES[i] : i \in 1..12}
        pads == {<<<< >>, << >>>>, <<<<" ">>, << >>>>, <<<<" ">>, <<" ", " ">>>>}
    IN  {p[1] \o r \o q \o b \o p[2] :
            r \in roots, q \in qualities, b \in basses, p \in pads}

\* the chords pushed into a history
PushChords ==
    {Chord_new(Note_new(60), "Major"), Chord_new(Note_new(69), "Minor")}

\* the capacities a history is built with: the small ones, and the two
\* around the number of values of an age
Capacities == 0..MaxEntries \cup {256, 257}

\* the keys played to the App: B3, E4, A4, which held together are Esus4
\* over B as much as Asus2 over B
AppNotes == {59, 64, 69}

\* the keys played while the lock is followed step by step: C4, E4, G4
MidiNotes == {60, 64, 67}

\* the messages the port delivers for the keys of pool: note off, note on
\* (on channel 2) and a controller message, with velocity 0 and 100, and a
\* message of two bytes
Messages(pool) ==
    {<<status, n, velocity>> :
        status \in {128, 145, 176}, n \in pool, velocity \in {0, 100}}
    \cup {<<145, n>> : n \in pool}

\* the sets held_notes() may return to a tick: with a port, whatever the
\* callback has made of the keys of pool since the last tick
Snapshots(pool) == IF midi_input THEN SUBSET pool ELSE {{}}

\* each set of played keys with what Chord::detect may return for it, one
\* result for each iteration order of its HashSet
DetectTable ==
    {<<ns, {Chord_detect(ns, order) : order \in IterOrders(PitchClasses(ns))}>> :
        ns \in (SUBSET AppNotes) \cup (SUBSET MidiNotes)}

DetectOutcomes(ns) == (CHOOSE row \in DetectTable : row[1] = ns)[2]

\* the key codes that reach the history
HistoryKeyCodes == {"Tab", "c"}

\* the key codes handed to App::handle_key
KeyCodes == {"q", "Esc", "Tab", "e", "?", "c", "x"}

(***************************************************************************)
(* Operations                                                              *)
(***************************************************************************)
\* no ChordHistory is in use
NoHistory ==
    /\ entries = << >>
    /\ max_entries = 0
    /\ fade = FALSE
    /\ before = << >>

\* no App
NoApp ==
    /\ mode = "Discovery"
    /\ midi_input = FALSE
    /\ current_chord = None
    /\ last_notes = {}
    /\ should_quit = FALSE
    /\ extended_chords = FALSE
    /\ show_help = FALSE
    /\ held_notes = {}
    /\ lock = "free"
    /\ tick_pc = "idle"
    /\ cb_msg = None
    /\ prev = None
    /\ redetect = None

\* every variable but phase and the drawn inputs, as before any operation
Blank ==
    /\ text = << >>
    /\ parsed = None
    /\ numeral = << >>
    /\ extended_mode = FALSE
    /\ tree = None
    /\ the_note = None
    /\ NoHistory
    /\ NoApp

\* Chord::detect(&notes)
Detect ==
    /\ phase = "input"
    /\ \E order \in IterOrders(PitchClasses(notes)) :
           chord' = Chord_detect(notes, order)
    /\ phase' = "detected"
    /\ UNCHANGED <<the_note, entries, max_entries, fade, before>>
    /\ UNCHANGED app_vars
    /\ UNCHANGED <<notes, text, parsed, key, numeral, extended_mode, tree>>

\* chord.name()
Name ==
    /\ phase \in {"detected", "chord"}
    /\ IsSome(chord)
    /\ text' = Chord_name(chord.val)
    /\ phase' = "named"
    /\ UNCHANGED <<the_note, entries, max_entries, fade, before>>
    /\ UNCHANGED app_vars
    /\ UNCHANGED <<notes, chord, parsed, key, numeral, extended_mode, tree>>

\* Chord::from_name(&text)
FromName ==
    /\ phase = "named"
    /\ parsed' = Chord_from_name(text)
    /\ phase' = "parsed"
    /\ UNCHANGED <<the_note, entries, max_entries, fade, before>>
    /\ UNCHANGED app_vars
    /\ UNCHANGED <<notes, chord, text, key, numeral, extended_mode, tree>>

\* chord.roman_numeral(key)
RomanNumeral ==
    /\ phase = "chord"
    /\ \E k \in KeyInputs :
           /\ key' = Some(k)
           /\ numeral' = Chord_roman_numeral(chord.val, k)
    /\ phase' = "numbered"
    /\ UNCHANGED <<the_note, entries, max_entries, fade, before>>
    /\ UNCHANGED app_vars
    /\ UNCHANGED <<notes, chord, text, parsed, extended_mode, tree>>

\* tree.set_extended(extended)
SetExtended ==
    /\ phase = "tree_input"
    /\ \E extended \in BOOLEAN : extended_mode' = extended
    /\ UNCHANGED <<the_note, entries, max_entries, fade, before>>
    /\ UNCHANGED app_vars
    /\ UNCHANGED <<phase, notes, chord, text, parsed, key, numeral, tree>>

\* tree.suggest(&chord, key)
Suggest ==
    /\ phase = "tree_input"
    /\ tree' = Some(suggest(extended_mode, chord.val, key))
    /\ phase' = "suggested"
    /\ UNCHANGED <<the_note, entries, max_entries, fade, before>>
    /\ UNCHANGED app_vars
    /\ UNCHANGED <<notes, chord, text, parsed, key, numeral, extended_mode>>

\* note.display()
Display ==
    /\ phase = "note"
    /\ text' = Note_display(the_note.val)
    /\ phase' = "displayed"
    /\ UNCHANGED <<notes, chord, parsed, key, numeral, extended_mode, tree>>
    /\ UNCHANGED <<the_note, entries, max_entries, fade, before>>
    /\ UNCHANGED app_vars

\* Note::from_name(&text), in either build
NoteFromName ==
    /\ phase \in {"displayed", "note_text"}
    /\ \E overflow_checks \in BOOLEAN :
           parsed' = Note_from_name(text, overflow_checks)
    /\ phase' = "note_parsed"
    /\ UNCHANGED <<notes, chord, text, key, numeral, extended_mode, tree>>
    /\ UNCHANGED <<the_note, entries, max_entries, fade, before>>
    /\ UNCHANGED app_vars

HistoryPhases == {"history", "push", "tick", "set_fade", "clear"}

\* history.push(c)
HistoryPush ==
    /\ phase \in HistoryPhases
    /\ \E c \in PushChords :
          /\ chord' = Some(c)
          /\ entries' = ChordHistory_push(entries, max_entries, c)
    /\ before' = entries
    /\ phase' = "push"
    /\ UNCHANGED <<notes, text, parsed, key, numeral, extended_mode, tree>>
    /\ UNCHANGED <<the_note, max_entries, fade>>
    /\ UNCHANGED app_vars

\* history.tick()
HistoryTick ==
    /\ phase \in HistoryPhases
    /\ entries' = ChordHistory_tick(entries, fade)
    /\ before' = entries
    /\ phase' = "tick"
    /\ UNCHANGED <<notes, chord, text, parsed, key, numeral, extended_mode, tree>>
    /\ UNCHANGED <<the_note, max_entries, fade>>
    /\ UNCHANGED app_vars

\* history.set_fade(f)
HistorySetFade ==
    /\ phase \in HistoryPhases
    /\ \E f \in BOOLEAN : fade' = f
    /\ before' = entries
    /\ phase' = "set_fade"
    /\ UNCHANGED <<notes, chord, text, parsed, key, numeral, extended_mode, tree>>
    /\ UNCHANGED <<the_note, entries, max_entries>>
    /\ UNCHANGED app_vars

\* history.clear()
HistoryClear ==
    /\ phase \in HistoryPhases
    /\ entries' = << >>
    /\ before' = entries
    /\ phase' = "clear"
    /\ UNCHANGED <<notes, chord, text, parsed, key, numeral, extended_mode, tree>>
    /\ UNCHANGED <<the_note, max_entries, fade>>
    /\ UNCHANGED app_vars

\* Mutex::lock returns once nobody holds the lock
CanLock_always(holder) == TRUE

CanLock(holder) == holder = "free"

\* the callback up to `held_notes_clone.lock().unwrap()`
CallbackLock(pool) ==
    /\ midi_input
    /\ ~IsSome(cb_msg)
    /\ \E message \in Messages(pool) :
          IF Len(message) >= 3
          THEN /\ CanLock(lock)
               /\ lock' = "callback"
               /\ cb_msg' = Some(message)
          ELSE UNCHANGED <<lock, cb_msg>>
    /\ phase' = "callback"
    /\ UNCHANGED <<notes, chord, text, parsed, key, numeral, extended_mode, tree>>
    /\ UNCHANGED <<the_note, entries, max_entries, fade, before>>
    /\ UNCHANGED <<mode, midi_input, current_chord, last_notes, should_quit,
                   extended_chords, show_help, held_notes, tick_pc, prev, redetect>>

\* the callback from the match on status to the drop of the guard
CallbackUpdate ==
    /\ IsSome(cb_msg)
    /\ held_notes' = Callback_update(held_notes, cb_msg.val)
    /\ lock' = "free"
    /\ cb_msg' = None
    /\ phase' = "callback"
    /\ UNCHANGED <<notes, chord, text, parsed, key, numeral, extended_mode, tree>>
    /\ UNCHANGED <<the_note, entries, max_entries, fade, before>>
    /\ UNCHANGED <<mode, midi_input, current_chord, last_notes, should_quit,
                   extended_chords, show_help, tick_pc, prev, redetect>>

\* App::tick from `if notes != self.last_notes` on, for a snapshot;
\* `detected` is what Chord::detect returns for it, `again` what it returns
\* to the App that detects on every cycle
TickBody(snapshot, detected, again) ==
    LET a == App_tick(TickFields(current_chord, key, last_notes, entries),
                      snapshot, detected, max_entries, fade)
    IN  /\ notes' = snapshot
        /\ chord' = IF snapshot # last_notes THEN detected ELSE None
        /\ current_chord' = a.current_chord
        /\ key' = a.key
        /\ last_notes' = a.last_notes
        /\ entries' = a.entries
        /\ before' = entries
        /\ prev' = Some([current_chord |-> current_chord, key |-> key])
        /\ redetect' = IF IsSome(redetect)
                       THEN Some(App_tick_always_detect(redetect.val, snapshot,
                                     again, max_entries, fade))
                       ELSE None
        /\ tick_pc' = IF should_quit THEN "exited" ELSE "idle"
        /\ phase' = "tick"
        /\ tree' = None
        /\ UNCHANGED <<text, parsed, numeral, extended_mode>>
        /\ UNCHANGED <<the_note, max_entries, fade>>
        /\ UNCHANGED <<mode, midi_input, should_quit, extended_chords, show_help,
                       held_notes, lock, cb_msg>>

\* app.tick(), start to end, with the set held_notes() returns as input
Tick(pool) ==
    /\ tick_pc = "idle"
    /\ \E snapshot \in Snapshots(pool) :
          \E detected \in DetectOutcomes(snapshot) :
             \E again \in DetectOutcomes(snapshot) :
                /\ (snapshot # last_notes \/ ~IsSome(redetect)) => again = detected
                /\ TickBody(snapshot, detected, again)

\* app.tick(): m.held_notes() takes the lock
TickLock ==
    /\ tick_pc = "idle"
    /\ midi_input
    /\ CanLock(lock)
    /\ lock' = "app"
    /\ tick_pc' = "locked"
    /\ phase' = "ticking"
    /\ notes' = {}
    /\ chord' = None
    /\ tree' = None
    /\ before' = entries
    /\ prev' = None
    /\ UNCHANGED <<text, parsed, key, numeral, extended_mode>>
    /\ UNCHANGED <<the_note, entries, max_entries, fade>>
    /\ UNCHANGED <<mode, midi_input, current_chord, last_notes, should_quit,
                   extended_chords, show_help, held_notes, cb_msg, redetect>>

\* app.tick(): m.held_notes() clones the set
TickClone ==
    /\ tick_pc = "locked"
    /\ notes' = held_notes
    /\ tick_pc' = "cloned"
    /\ UNCHANGED <<phase, chord, text, parsed, key, numeral, extended_mode, tree>>
    /\ UNCHANGED <<the_note, entries, max_entries, fade, before>>
    /\ UNCHANGED <<mode, midi_input, current_chord, last_notes, should_quit,
                   extended_chords, show_help, held_notes, lock, cb_msg, prev, redetect>>

\* app.tick(): m.held_notes() drops the guard as it returns
TickUnlock ==
    /\ tick_pc = "cloned"
    /\ lock' = "free"
    /\ tick_pc' = "snapshot"
    /\ UNCHANGED <<phase, notes, chord, text, parsed, key, numeral, extended_mode, tree>>
    /\ UNCHANGED <<the_note, entries, max_entries, fade, before>>
    /\ UNCHANGED <<mode, midi_input, current_chord, last_notes, should_quit,
                   extended_chords, show_help, held_notes, cb_msg, prev, redetect>>

\* app.tick() with no port connected: unwrap_or_default()
TickNoMidi ==
    /\ tick_pc = "idle"
    /\ ~midi_input
    /\ tick_pc' = "snapshot"
    /\ phase' = "ticking"
    /\ notes' = {}
    /\ chord' = None
    /\ tree' = None
    /\ before' = entries
    /\ prev' = None
    /\ UNCHANGED <<text, parsed, key, numeral, extended_mode>>
    /\ UNCHANGED <<the_note, entries, max_entries, fade>>
    /\ UNCHANGED <<mode, midi_input, current_chord, last_notes, should_quit,
                   extended_chords, show_help, held_notes, lock, cb_msg, redetect>>

\* app.tick() from the comparison with last_notes to the end
TickRun ==
    /\ tick_pc = "snapshot"
    /\ \E detected \in DetectOutcomes(notes) :
          \E again \in DetectOutcomes(notes) :
             /\ (notes # last_notes \/ ~IsSome(redetect)) => again = detected
             /\ TickBody(notes, detected, again)

\* app.handle_key(code), which the main loop calls when no help is shown;
\* what the last tick and render left behind is gone
HandleKey(codes) ==
    /\ tick_pc = "idle"
    /\ ~should_quit
    /\ ~show_help
    /\ \E code \in codes :
          /\ should_quit' = (code \in {"q", "Esc"})
          /\ mode' = IF code = "Tab" THEN toggle_mode(mode) ELSE mode
          /\ fade' = IF code = "Tab" THEN toggle_mode(mode) = "Jam" ELSE fade
          /\ extended_chords' = IF code = "e" THEN ~extended_chords ELSE extended_chords
          /\ extended_mode' = IF code = "e" THEN ~extended_chords ELSE extended_mode
          /\ show_help' = (code = "?")
          /\ entries' = IF code = "c" THEN << >> ELSE entries
          /\ key' = IF code = "c" THEN None ELSE key
          /\ redetect' = IF code = "c" /\ IsSome(redetect)
                         THEN Some([redetect.val EXCEPT !.entries = << >>, !.key = None])
                         ELSE redetect
    /\ phase' = "key"
    /\ notes' = {}
    /\ chord' = None
    /\ tree' = None
    /\ before' = entries
    /\ prev' = None
    /\ UNCHANGED <<text, parsed, numeral, the_note, max_entries>>
    /\ UNCHANGED <<midi_input, current_chord, last_notes, held_notes, lock,
                   tick_pc, cb_msg>>

\* the main loop on a key press while the help is shown
DismissHelp ==
    /\ tick_pc = "idle"
    /\ ~should_quit
    /\ show_help
    /\ show_help' = FALSE
    /\ phase' = "key"
    /\ notes' = {}
    /\ chord' = None
    /\ tree' = None
    /\ before' = entries
    /\ prev' = None
    /\ UNCHANGED <<text, parsed, key, numeral, extended_mode>>
    /\ UNCHANGED <<the_note, entries, max_entries, fade>>
    /\ UNCHANGED <<mode, midi_input, current_chord, last_notes, should_quit,
                   extended_chords, held_notes, lock, tick_pc, cb_msg, redetect>>

\* app.render(frame): render_tree calls suggest for the current chord
Render ==
    /\ tick_pc = "idle"
    /\ tree' = IF IsSome(current_chord)
               THEN Some(suggest(extended_mode, current_chord.val, key))
               ELSE None
    /\ phase' = "render"
    /\ notes' = {}
    /\ chord' = None
    /\ before' = entries
    /\ prev' = None
    /\ UNCHANGED <<text, parsed, key, numeral, extended_mode>>
    /\ UNCHANGED <<the_note, entries, max_entries, fade>>
    /\ UNCHANGED <<mode, midi_input, current_chord, last_notes, should_quit,
                   extended_chords, show_help, held_notes, lock, tick_pc, cb_msg,
                   redetect>>

(***************************************************************************)
(* Detection of a held-note set, its name, and the name parsed back.       *)
(***************************************************************************)
InitDetect ==
    /\ phase = "input"
    /\ notes \in NoteSets
    /\ chord = None
    /\ key = None
    /\ Blank

NextDetect == Detect \/ Name \/ FromName

SpecDetect == InitDetect /\ [][NextDetect]_vars

(***************************************************************************)
(* Naming, numbering and parsing of any chord.                             *)
(***************************************************************************)
InitChord ==
    /\ phase = "chord"
    /\ notes = {}
    /\ chord \in {Some(c) : c \in ChordInputs}
    /\ key = None
    /\ Blank

NextChord == Name \/ FromName \/ RomanNumeral

SpecChord == InitChord /\ [][NextChord]_vars

(***************************************************************************)
(* The suggestion tree of any chord and key.                               *)
(***************************************************************************)
InitTree ==
    /\ phase = "tree_input"
    /\ notes = {}
    /\ chord \in {Some(c) : c \in ChordInputs}
    /\ key \in {None} \cup {Some(k) : k \in KeyInputs}
    /\ Blank

NextTree == SetExtended \/ Suggest

SpecTree == InitTree /\ [][NextTree]_vars

(***************************************************************************)
(* Notes: a note displayed and parsed back, and a text parsed as a note.   *)
(***************************************************************************)
InitNote ==
    /\ \/ /\ phase = "note"
          /\ the_note \in {Some(Note_new(m)) : m \in 0..255}
          /\ text = << >>
       \/ /\ phase = "note_text"
          /\ the_note = None
          /\ text \in NoteTexts
    /\ notes = {}
    /\ chord = None
    /\ key = None
    /\ parsed = None
    /\ numeral = << >>
    /\ extended_mode = FALSE
    /\ tree = None
    /\ NoHistory
    /\ NoApp

NextNote == Display \/ NoteFromName

SpecNote == InitNote /\ [][NextNote]_vars

(***************************************************************************)
(* Parsing of any text as a chord name.                                    *)
(***************************************************************************)
InitParse ==
    /\ phase = "named"
    /\ notes = {}
    /\ chord = None
    /\ key = None
    /\ text \in ChordTexts
    /\ parsed = None
    /\ numeral = << >>
    /\ extended_mode = FALSE
    /\ tree = None
    /\ the_note = None
    /\ NoHistory
    /\ NoApp

NextParse == FromName

SpecParse == InitParse /\ [][NextParse]_vars

(***************************************************************************)
(* A chord history of any capacity under any sequence of its operations.   *)
(***************************************************************************)
InitHistory ==
    /\ phase = "history"
    /\ notes = {}
    /\ chord = None
    /\ key = None
    /\ text = << >>
    /\ parsed = None
    /\ numeral = << >>
    /\ extended_mode = FALSE
    /\ tree = None
    /\ the_note = None
    /\ entries = << >>
    /\ max_entries \in Capacities
    /\ fade = FALSE
    /\ before = << >>
    /\ NoApp

NextHistory == HistoryPush \/ HistoryTick \/ HistorySetFade \/ HistoryClear

SpecHistory == InitHistory /\ [][NextHistory]_vars

(***************************************************************************)
(* The App under any sequence of ticks, with any snapshots, and key presses.*)
(***************************************************************************)
\* App::new()
AppNew ==
    /\ notes = {}
    /\ chord = None
    /\ text = << >>
    /\ parsed = None
    /\ key = None
    /\ numeral = << >>
    /\ extended_mode = FALSE
    /\ tree = None
    /\ the_note = None
    /\ entries = << >>
    /\ max_entries = 16
    /\ fade = FALSE
    /\ before = << >>
    /\ mode = "Discovery"
    /\ current_chord = None
    /\ last_notes = {}
    /\ should_quit = FALSE
    /\ extended_chords = FALSE
    /\ show_help = FALSE
    /\ held_notes = {}
    /\ lock = "free"
    /\ tick_pc = "idle"
    /\ cb_msg = None
    /\ prev = None

InitApp ==
    /\ phase = "app"
    /\ AppNew
    /\ midi_input \in BOOLEAN
    /\ redetect = None

NextApp == Tick(AppNotes) \/ HandleKey(KeyCodes) \/ DismissHelp

SpecApp == InitApp /\ [][NextApp]_vars

(***************************************************************************)
(* The App next to an App whose tick runs detect on every cycle.           *)
(***************************************************************************)
InitRedetect ==
    /\ phase = "app"
    /\ AppNew
    /\ midi_input = TRUE
    /\ redetect = Some(TickFields(None, None, {}, << >>))

NextRedetect == Tick(AppNotes) \/ HandleKey(HistoryKeyCodes)

SpecRedetect == InitRedetect /\ [][NextRedetect]_vars

(***************************************************************************)
(* The main thread and the MIDI callback, step by step around the lock.    *)
(***************************************************************************)
InitMidi ==
    /\ phase = "app"
    /\ AppNew
    /\ midi_input \in BOOLEAN
    /\ redetect = None

NextMidi ==
    \/ CallbackLock(MidiNotes) \/ CallbackUpdate
    \/ TickLock \/ TickClone \/ TickUnlock \/ TickNoMidi \/ TickRun
    \/ Render

SpecMidi == InitMidi /\ [][NextMidi]_vars

(***************************************************************************)
(* All of them together.                                                    *)
(***************************************************************************)
Init == InitDetect \/ InitChord \/ InitTree \/ InitNote \/ InitParse
            \/ InitHistory \/ InitApp \/ InitRedetect \/ InitMidi

Next == NextDetect \/ NextChord \/ NextTree \/ NextNote \/ NextParse
            \/ NextHistory \/ NextApp \/ NextRedetect \/ NextMidi

Spec == Init /\ [][Next]_vars

(***************************************************************************)
(* Properties.  The inputs are restated here from the variables alone.     *)
(***************************************************************************)
\* Chord::detect has returned (its result is in chord)
Detected == phase \in {"detected", "named", "parsed"}

\* the pitch classes of the held notes
InputPitchClasses == {n % 12 : n \in notes}

\* the lowest held note
LowestInput == CHOOSE m \in notes : \A n \in notes : m <= n

\* the triad and seventh catalog
CatalogQualities ==
    {"Major", "Minor", "Diminished", "Augmented", "Sus2", "Sus4",
     "Major7", "Minor7", "Dominant7", "Diminished7", "HalfDim7",
     "MinorMajor7", "Augmented7"}

\* the interval set of a quality, as listed
IntervalSet(q) == {Quality_intervals(q)[i] : i \in DOMAIN Quality_intervals(q)}

\* the interval set of the input taken from pitch class r
InputIntervalsFrom(r) == {(pc - r) % 12 : pc \in InputPitchClasses}

\* C1: when the input has at least 3 pitch classes and its interval set taken
\* from the lowest note's pitch class equals the interval set of a catalog
\* quality q, detect returns root = the lowest note's pitch class, quality q
\* and no bass, whatever other (inverted) matches exist.
C1_RootPositionWins ==
    (Detected /\ Cardinality(InputPitchClasses) >= 3) =>
        \A q \in CatalogQualities :
            InputIntervalsFrom(LowestInput % 12) = IntervalSet(q) =>
                /\ IsSome(chord)
                /\ chord.val.root.midi % 12 = LowestInput % 12
                /\ chord.val.quality = q
                /\ chord.val.bass = None

\* a root-position match was returned although an inverted match of the same
\* pitch classes exists (C, D, G: Csus2 against Gsus4/C)
C1_Witness ==
    /\ Detected
    /\ IsSome(chord)
    /\ chord.val.bass = None
    /\ InputIntervalsFrom(LowestInput % 12) = IntervalSet(chord.val.quality)
    /\ \E r \in InputPitchClasses \ {LowestInput % 12} :
           \E q \in CatalogQualities : InputIntervalsFrom(r) = IntervalSet(q)

\* C2: a returned chord has a bass exactly when its root's pitch class differs
\* from the pitch class of the lowest input note, and the bass is then the
\* Note of the lowest raw note number.
C2_InversionMarker ==
    (Detected /\ IsSome(chord)) =>
        /\ IsSome(chord.val.bass) <=> (chord.val.root.midi % 12 # LowestInput % 12)
        /\ IsSome(chord.val.bass) => chord.val.bass.val = [midi |-> LowestInput]

\* {64, 67, 72} (E, G, C) gives root C, Major, bass E, named "C/E"
C2_Witness ==
    /\ phase = "named"
    /\ notes = {64, 67, 72}
    /\ chord = Some([root |-> [midi |-> 60], quality |-> "Major",
                     bass |-> Some([midi |-> 64])])
    /\ text = <<"C", "/", "E">>

\* C3: detect returns no match for every input with fewer than 3 note numbers
\* or fewer than 3 distinct pitch classes.
C3_TooFewNotes ==
    (Detected /\ (Cardinality(notes) < 3 \/ Cardinality(InputPitchClasses) < 3)) =>
        chord = None

\* three held notes that double a pitch class across octaves: no match
C3_Witness ==
    /\ Detected
    /\ Cardinality(notes) >= 3
    /\ Cardinality(InputPitchClasses) < 3
    /\ chord = None

\* C4: detect returns a chord exactly when some pitch class r of the input and
\* some catalog quality q have {(pc - r) mod 12} = intervals(q), and the
\* returned (root, q) spells exactly the input's pitch-class set.
C4_ExactSetMatching ==
    Detected =>
        /\ IsSome(chord) <=>
               \E r \in InputPitchClasses : \E q \in CatalogQualities :
                   InputIntervalsFrom(r) = IntervalSet(q)
        /\ IsSome(chord) =>
               {((chord.val.root.midi % 12) + i) % 12 :
                    i \in IntervalSet(chord.val.quality)} = InputPitchClasses

\* a four-note chord was returned whose pitch classes strictly contain a
\* catalog triad on the same root
C4_Witness ==
    /\ Detected
    /\ IsSome(chord)
    /\ Cardinality(InputPitchClasses) = 4
    /\ \E q \in CatalogQualities :
           /\ IntervalSet(q) \subseteq InputIntervalsFrom(chord.val.root.midi % 12)
           /\ IntervalSet(q) # InputIntervalsFrom(chord.val.root.midi % 12)

\* C5: the chord detect returns is the same for every order in which the
\* candidate roots of the pitch-class set are enumerated.
C5_OrderIndependent ==
    Detected =>
        \A order \in IterOrders(InputPitchClasses) : Chord_detect(notes, order) = chord

\* C6: for every chord c detect returns, from_name(c.name()) returns a chord
\* with the same root pitch class, the same quality and the same bass pitch
\* class (bass absent iff absent in c).
C6_NameRoundTrip ==
    phase = "parsed" =>
        /\ IsSome(parsed)
        /\ parsed.val.root.midi % 12 = chord.val.root.midi % 12
        /\ parsed.val.quality = chord.val.quality
        /\ IsSome(parsed.val.bass) <=> IsSome(chord.val.bass)
        /\ IsSome(chord.val.bass) =>
               parsed.val.bass.val.midi % 12 = chord.val.bass.val.midi % 12

\* an inversion with a sharp root went through name and from_name, and the
\* bass came back in the reference octave, not the octave it was played in
C6_Witness ==
    /\ phase = "parsed"
    /\ notes # {}
    /\ IsSome(chord.val.bass)
    /\ chord.val.root.midi % 12 \in {1, 3, 6, 8, 10}
    /\ IsSome(parsed)
    /\ parsed.val.bass.val.midi # chord.val.bass.val.midi
    /\ Len(text) >= 4

\* the chord's name has been computed
Named == phase \in {"named", "parsed"}

\* C7: the name of any chord is the root's sharp-spelled name, the quality
\* symbol, and "/" with the bass name exactly when a bass is present and its
\* pitch class differs from the root's; octaves do not enter.
C7_NameFormat ==
    Named =>
        LET c == chord.val
            slash == IsSome(c.bass) /\ (c.bass.val.midi % 12 # c.root.midi % 12)
        IN  text = NOTE_NAMES[(c.root.midi % 12) + 1] \o Quality_symbol(c.quality)
                   \o (IF slash
                       THEN <<"/">> \o NOTE_NAMES[(c.bass.val.midi % 12) + 1]
                       ELSE << >>)

\* a chord whose bass is its root's pitch class in another octave was named
C7_Witness ==
    /\ Named
    /\ notes = {}
    /\ IsSome(chord.val.bass)
    /\ chord.val.bass.val.midi # chord.val.root.midi
    /\ chord.val.bass.val.midi % 12 = chord.val.root.midi % 12
    /\ text = NOTE_NAMES[(chord.val.root.midi % 12) + 1] \o Quality_symbol(chord.val.quality)

\* the twelve numerals of the claim, by degree
NumeralList ==
    << <<"I">>, <<"b", "I", "I">>, <<"I", "I">>, <<"b", "I", "I", "I">>,
       <<"I", "I", "I">>, <<"I", "V">>, <<"b", "V">>, <<"V">>, <<"b", "V", "I">>,
       <<"V", "I">>, <<"b", "V", "I", "I">>, <<"V", "I", "I">> >>

\* a numeral with its upper-case letters lowered
Lowered(s) ==
    [i \in 1..Len(s) |-> IF s[i] = "I" THEN "i" ELSE IF s[i] = "V" THEN "v" ELSE s[i]]

\* C8: roman_numeral gives the numeral of degree (root - key) mod 12,
\* lowercased exactly for Minor, Minor7, MinorMajor7, HalfDim7, Diminished and
\* Diminished7, followed by the quality's suffix; the degree is in 0..11.
C8_RomanNumeral ==
    phase = "numbered" =>
        LET c == chord.val
            degree == (c.root.midi - key.val.midi) % 12
            lower == c.quality \in {"Minor", "Minor7", "MinorMajor7", "HalfDim7",
                                    "Diminished", "Diminished7"}
            base == IF lower THEN Lowered(NumeralList[degree + 1])
                    ELSE NumeralList[degree + 1]
            suffix == CASE c.quality \in {"Major", "Minor"} -> << >>
                        [] c.quality = "Diminished" -> <<DegreeSign>>
                        [] c.quality = "Augmented" -> <<"+">>
                        [] c.quality = "Major7" -> <<"m", "a", "j", "7">>
                        [] c.quality \in {"Minor7", "Dominant7"} -> <<"7">>
                        [] c.quality = "Diminished7" -> <<DegreeSign, "7">>
                        [] c.quality = "HalfDim7" -> <<SlashedO, "7">>
                        [] OTHER -> Quality_symbol(c.quality)
        IN  /\ degree \in 0..11
            /\ numeral = base \o suffix
            /\ \A i \in 1..Len(numeral) : numeral[i] # "unreachable!"

\* a half-diminished chord a semitone above the key, with the root below the
\* key's pitch class so that the subtraction wraps: "bii" and the suffix
C8_Witness ==
    /\ phase = "numbered"
    /\ chord.val.quality = "HalfDim7"
    /\ chord.val.root.midi % 12 = 0
    /\ key.val.midi % 12 = 11
    /\ numeral = <<"b", "i", "i", SlashedO, "7">>

\* the number of nodes of a tree
RECURSIVE CountNodes(_)
CountNodes(node_opt) ==
    IF ~IsSome(node_opt) THEN 0
    ELSE 1 + CountNodes(node_opt.val.left) + CountNodes(node_opt.val.right)

\* a node with both children / with none
HasBoth(node) == IsSome(node.left) /\ IsSome(node.right)

IsLeaf(node) == node.left = None /\ node.right = None

\* C9: suggest returns a tree of exactly 7 nodes in 3 levels: the root and its
\* two children have both children, the 4 grandchildren have none.
C9_TreeShape ==
    phase = "suggested" =>
        /\ IsSome(tree)
        /\ CountNodes(tree) = 7
        /\ HasBoth(tree.val)
        /\ HasBoth(tree.val.left.val)
        /\ HasBoth(tree.val.right.val)
        /\ IsLeaf(tree.val.left.val.left.val)
        /\ IsLeaf(tree.val.left.val.right.val)
        /\ IsLeaf(tree.val.right.val.left.val)
        /\ IsLeaf(tree.val.right.val.right.val)

\* a tree was built in extended mode with no key given, from a chord with a bass
C9_Witness ==
    /\ phase = "suggested"
    /\ key = None
    /\ extended_mode
    /\ IsSome(chord.val.bass)
    /\ CountNodes(tree) = 7

\* the key suggest works in: the given key, or the current root
TreeKey == IF IsSome(key) THEN key.val.midi ELSE chord.val.root.midi

\* the degree of the current chord in that key
TreeDegree == (chord.val.root.midi - TreeKey) % 12

\* the chord of the claim's table: an interval above the key, reference octave
TableChord(interval, q) ==
    [root |-> [midi |-> (((TreeKey % 12) + interval) % 12) + 60],
     quality |-> q, bass |-> None]

\* C10: in non-extended mode and for a diatonic degree, the two children of
\* the root are the chords of the table, rooted at (key + interval) mod 12 + 60
\* with no bass, and the root node holds the current chord unchanged.
C10_DiatonicSuggestions ==
    (phase = "suggested" /\ ~extended_mode /\ TreeDegree \in {0, 2, 4, 5, 7, 9, 11}) =>
        LET row == CASE TreeDegree = 0 -> <<5, "Major", 9, "Minor">>
                     [] TreeDegree = 2 -> <<7, "Major", 5, "Major">>
                     [] TreeDegree = 4 -> <<9, "Minor", 5, "Major">>
                     [] TreeDegree = 5 -> <<7, "Major", 0, "Major">>
                     [] TreeDegree = 7 -> <<0, "Major", 9, "Minor">>
                     [] TreeDegree = 9 -> <<2, "Minor", 5, "Major">>
                     [] TreeDegree = 11 -> <<0, "Major", 4, "Minor">>
            left == tree.val.left.val.chord
            right == tree.val.right.val.chord
        IN  /\ left = TableChord(row[1], row[2])
            /\ right = TableChord(row[3], row[4])
            /\ tree.val.chord = chord.val
            /\ (TreeKey % 12 = 0 /\ chord.val.quality = "Major" /\ TreeDegree = 0) =>
                   Chord_name(left) = <<"F">> /\ Chord_name(right) = <<"A", "m">>
            /\ (TreeKey % 12 = 0 /\ chord.val.quality = "Major" /\ TreeDegree = 7) =>
                   Chord_name(left) = <<"C">> /\ Chord_name(right) = <<"A", "m">>

\* the tree of a chord on the seventh degree of a given key whose pitch class
\* is high enough for the children's roots to wrap past B
C10_Witness ==
    /\ phase = "suggested"
    /\ ~extended_mode
    /\ IsSome(key)
    /\ TreeKey % 12 = 10
    /\ TreeDegree = 11
    /\ tree.val.left.val.chord.root.midi = 70
    /\ tree.val.right.val.chord.root.midi = 62

\* the quality a suggestion of the table has in the mode the tree was built in
ModeQuality(q) ==
    IF extended_mode
    THEN (IF q = "Major" THEN "Major7" ELSE IF q = "Minor" THEN "Minor7" ELSE q)
    ELSE q

\* the degree of the current chord is none of the seven diatonic degrees
NonDiatonic == TreeDegree \in {1, 3, 6, 8, 10}

\* C11, as claimed: for a non-diatonic degree the two children are those of
\* degree 7 (V): left the I chord (key root, Major), right the vi chord
\* (key + 9, Minor).
C11_FallbackIsDegree7 ==
    (phase = "suggested" /\ NonDiatonic) =>
        /\ tree.val.left.val.chord = TableChord(0, ModeQuality("Major"))
        /\ tree.val.right.val.chord = TableChord(9, ModeQuality("Minor"))

\* C11, amended: for a non-diatonic degree the two children are those of
\* degree 5 (IV): left the V chord (key + 7, Major), right the I chord (key
\* root, Major), each Major7 in extended mode.
C11_FallbackIsDegree5 ==
    (phase = "suggested" /\ NonDiatonic) =>
        /\ tree.val.left.val.chord = TableChord(7, ModeQuality("Major"))
        /\ tree.val.right.val.chord = TableChord(0, ModeQuality("Major"))

\* the tree of a chord a tritone above a given key
C11_Witness ==
    /\ phase = "suggested"
    /\ IsSome(key)
    /\ TreeDegree = 6
    /\ ~extended_mode
    /\ tree.val.left.val.chord.quality = "Major"
    /\ tree.val.left.val.chord.root.midi = ((TreeKey + 7) % 12) + 60
    /\ tree.val.right.val.chord.root.midi = (TreeKey % 12) + 60

\* a chord with Major replaced by Major7 and Minor by Minor7
Remapped(c) ==
    [c EXCEPT !.quality = IF c.quality = "Major" THEN "Major7"
                          ELSE IF c.quality = "Minor" THEN "Minor7"
                          ELSE c.quality]

\* a leaf / an inner node with the chord remapped
RemappedLeaf(node) == [node EXCEPT !.chord = Remapped(node.chord)]

RemappedInner(node) ==
    [chord |-> Remapped(node.chord),
     left |-> Some(RemappedLeaf(node.left.val)),
     right |-> Some(RemappedLeaf(node.right.val))]

\* C12: the tree built in extended mode is the tree built in non-extended
\* mode with Major replaced by Major7 and Minor by Minor7 in the 2 children and
\* the 4 grandchildren; the root node holds the current chord in both modes.
C12_ExtendedMode ==
    phase = "suggested" =>
        LET plain == suggest(FALSE, chord.val, key)
        IN  /\ tree.val.chord = chord.val
            /\ extended_mode =>
                   /\ tree.val.left.val = RemappedInner(plain.left.val)
                   /\ tree.val.right.val = RemappedInner(plain.right.val)
            /\ ~extended_mode => tree.val = plain

\* an extended tree of a Major chord with a Minor7 child and a Major7 child
C12_Witness ==
    /\ phase = "suggested"
    /\ extended_mode
    /\ chord.val.quality = "Major"
    /\ tree.val.chord.quality = "Major"
    /\ tree.val.left.val.chord.quality = "Major7"
    /\ tree.val.right.val.chord.quality = "Minor7"
    /\ tree.val.right.val.left.val.chord.quality = "Minor7"

\* C13: the quality of a chord detect returns is one of the 13 catalog
\* qualities, never Add9 and never Unknown.
C13_CatalogOnly ==
    (Detected /\ IsSome(chord)) =>
        /\ chord.val.quality \in CatalogQualities
        /\ chord.val.quality \notin {"Add9", "Unknown"}

\* C, D, E, G (Add9's intervals reduced mod 12) was given and nothing matched
C13_Witness ==
    /\ Detected
    /\ notes = {60, 62, 64, 67}
    /\ InputIntervalsFrom(0) = {i % 12 : i \in IntervalSet("Add9")}
    /\ chord = None

\* C14: for every note number in 0..127, display is the name of pitch class
\* midi mod 12 followed by the octave floor(midi / 12) - 1, and from_name of
\* that text is the note again.
C14_DisplayRoundTrip ==
    (phase \in {"displayed", "note_parsed"} /\ IsSome(the_note)
        /\ the_note.val.midi <= 127) =>
        LET midi == the_note.val.midi
        IN  /\ Note_pitch_class(the_note.val) = midi % 12
            /\ Note_octave(the_note.val) = (midi \div 12) - 1
            /\ text = NOTE_NAMES[(midi % 12) + 1] \o FormatInt((midi \div 12) - 1)
            /\ phase = "note_parsed" => parsed = Some([midi |-> midi])

\* note 0 was displayed as "C-1" and parsed back
C14_Witness ==
    /\ phase = "note_parsed"
    /\ the_note = Some([midi |-> 0])
    /\ text = <<"C", "-", "1">>
    /\ parsed = Some([midi |-> 0])

\* the text is one of the 12 spellings followed by an octave that parses as i8
SpellingAndOctave ==
    LET k == IF Len(text) >= 2 /\ text[2] = "#" THEN 2 ELSE 1
    IN  /\ Len(text) > k
        /\ \E i \in 1..12 : NOTE_NAMES[i] = SubSeq(text, 1, k)
        /\ IsSome(ParseI8(SubSeq(text, k + 1, Len(text))))

\* C15: for every spelling followed by an octave in -128..127, from_name
\* returns a Note value and never aborts on the arithmetic.
C15_NeverAborts ==
    (phase = "note_parsed" /\ SpellingAndOctave) => IsSome(parsed)

\* the position of the first '/' of s, or 0
FirstSlash(s) ==
    IF \E i \in 1..Len(s) : s[i] = "/"
    THEN CHOOSE i \in 1..Len(s) : s[i] = "/" /\ \A j \in 1..(i - 1) : s[j] # "/"
    ELSE 0

\* one of the 12 sharp spellings
IsSpelling(s) == \E i \in 1..12 : NOTE_NAMES[i] = s

PitchClassOf(s) == (CHOOSE i \in 1..12 : NOTE_NAMES[i] = s) - 1

\* C16: from_name returns no match, without aborting, for a text that is
\* empty after trimming, whose root token (first character, or first two
\* when the second is '#') is no spelling, whose quality token is no alias
\* or whose text after the first '/' is no spelling; for every other text it
\* returns the chord with root and bass at pitch class + 60 and the aliased
\* quality.
C16_FromNameTotal ==
    (phase = "parsed" /\ ~IsSome(chord)) =>
        LET t == trim(text)
            k == IF Len(t) >= 2 /\ t[2] = "#" THEN 2 ELSE 1
            root_token == SubSeq(t, 1, k)
            rest == SubSeq(t, k + 1, Len(t))
            slash == FirstSlash(rest)
            quality_token == IF slash = 0 THEN rest ELSE SubSeq(rest, 1, slash - 1)
            bass_token == SubSeq(rest, slash + 1, Len(rest))
            no_match == \/ t = << >>
                        \/ ~IsSpelling(root_token)
                        \/ quality_token \notin QualityAliases
                        \/ slash # 0 /\ ~IsSpelling(bass_token)
        IN  IF no_match THEN parsed = None
            ELSE /\ IsSome(parsed)
                 /\ parsed.val.root = Note_new(PitchClassOf(root_token) + 60)
                 /\ parsed.val.quality = QualityOfToken(quality_token).val
                 /\ quality_token \in {<<"m", "7", "b", "5">>, <<SlashedO, "7">>,
                                       <<SlashedO>>}
                        => parsed.val.quality = "HalfDim7"
                 /\ parsed.val.bass =
                        IF slash = 0 THEN None
                        ELSE Some(Note_new(PitchClassOf(bass_token) + 60))

\* the last history operation was a push of chord.val
Pushed == phase = "push" /\ IsSome(chord)

\* the pushed chord has the name of the newest entry before the push
DuplicatePush ==
    /\ Pushed
    /\ before # << >>
    /\ Chord_name(before[Len(before)].chord) = Chord_name(chord.val)

\* C17: no two neighbouring entries have the same chord name, after any
\* sequence of push, tick, set_fade and clear; a push whose name equals the
\* newest entry's name changes nothing, not even ages.
C17_NoAdjacentDuplicates ==
    /\ \A i \in 1..(Len(entries) - 1) :
          Chord_name(entries[i].chord) # Chord_name(entries[i + 1].chord)
    /\ DuplicatePush => entries = before

\* a chord was pushed twice in a row into a history that holds two entries
C17_Witness ==
    /\ DuplicatePush
    /\ Len(before) = 2
    /\ entries = before
    /\ before[2].age = 0

\* the entries are those of es from position 2 on, in order, then chord c
OldestEvicted(es, c) ==
    /\ entries # << >>
    /\ Len(entries) = Len(es)
    /\ \A i \in 1..(Len(entries) - 1) : entries[i].chord = es[i + 1].chord
    /\ entries[Len(entries)].chord = c

\* C18 as stated: the number of entries is at most max_entries, and a push
\* into a full history removes the oldest entry and keeps the others in
\* insertion order with the new chord last.
C18_BoundedEvictsOldest ==
    /\ Len(entries) <= max_entries
    /\ (Pushed /\ Len(before) = max_entries) => OldestEvicted(before, chord.val)

\* C18 amended: the number of entries is at most max_entries, and a push
\* into a full history of capacity at least 1, of a chord whose name differs
\* from the newest entry's, removes the oldest entry and keeps the others in
\* insertion order with the new chord last.
C18_BoundedEvictsOldestOnAcceptedPush ==
    /\ Len(entries) <= max_entries
    /\ (Pushed /\ Len(before) = max_entries /\ max_entries >= 1 /\ ~DuplicatePush)
          => OldestEvicted(before, chord.val)

\* a chord of another name was pushed into a full history of capacity 3
C18_Witness ==
    /\ Pushed
    /\ max_entries = 3
    /\ Len(before) = 3
    /\ ~DuplicatePush
    /\ Len(entries) = 3
    /\ entries[1].chord = before[2].chord
    /\ entries[3].chord = chord.val

\* C19: with max_entries at most 256, the entry at position i of n entries,
\* oldest first and counted from 0, has age n-1-i; the newest has age 0 and
\* an accepted push raises the age of every older entry that stays by 1.
C19_AgeIsDistanceFromNewest ==
    max_entries <= 256 =>
        /\ \A i \in 1..Len(entries) : entries[i].age = Len(entries) - i
        /\ entries # << >> => entries[Len(entries)].age = 0
        /\ (Pushed /\ ~DuplicatePush) =>
              LET dropped == Len(before) + 1 - Len(entries)
              IN  \A i \in 1..(Len(entries) - 1) :
                     entries[i].age = before[i + dropped].age + 1

\* a full history of capacity 256 took one more chord: its oldest entry has
\* the largest age a u8 holds
C19_Witness ==
    /\ Pushed
    /\ ~DuplicatePush
    /\ max_entries = 256
    /\ Len(before) = 256
    /\ Len(entries) = 256
    /\ entries[1].age = 255
    /\ entries[256].age = 0

\* C20: right after tick with fade enabled every entry has age < 8, at most
\* 8 entries remain and the newest entry before the tick is still there;
\* with fade disabled tick removes nothing.
C20_FadeTick ==
    phase = "tick" =>
        IF fade
        THEN /\ \A i \in 1..Len(entries) : entries[i].age < 8
             /\ Len(entries) <= 8
             /\ before # << >> =>
                   /\ entries # << >>
                   /\ entries[Len(entries)] = before[Len(before)]
        ELSE entries = before

\* a tick with fade enabled removed the oldest of nine entries
C20_Witness ==
    /\ phase = "tick"
    /\ fade
    /\ Len(before) = 9
    /\ Len(entries) = 8
    /\ entries = Tail(before)

\* a tick with fade disabled left nine entries alone
C20_Witness_NoFade ==
    /\ phase = "tick"
    /\ ~fade
    /\ Len(before) = 9
    /\ entries = before

\* the chord is the Diminished triad rooted a semitone above the key
DiminishedOnFlatTwo ==
    /\ phase = "numbered"
    /\ chord.val.quality = "Diminished"
    /\ (chord.val.root.midi - key.val.midi) % 12 = 1

\* C21 as stated: the Diminished chord whose root lies one semitone above
\* the key renders as "bII" followed by the degree sign.
C21_FlatTwoDiminishedUpperCase ==
    DiminishedOnFlatTwo => numeral = <<"b", "I", "I", DegreeSign>>

\* C21 amended: the Diminished chord whose root lies one semitone above the
\* key renders as "bii" followed by the degree sign, and "bII" followed by
\* the degree sign is the numeral of no chord in any key.
C21_FlatTwoDiminishedLowerCase ==
    /\ DiminishedOnFlatTwo => numeral = <<"b", "i", "i", DegreeSign>>
    /\ phase = "numbered" => numeral # <<"b", "I", "I", DegreeSign>>

\* C# diminished was numbered in the key of C
C21_Witness ==
    /\ DiminishedOnFlatTwo
    /\ chord.val.root.midi % 12 = 1
    /\ key.val.midi % 12 = 0
    /\ numeral = <<"b", "i", "i", DegreeSign>>

\* C26: a detected chord that has a bass has it on a pitch class other than
\* the root's and among the input's pitch classes, and its name holds "/"
\* followed by the name of the bass note.
C26_DetectedBassIsNamed ==
    (Detected /\ IsSome(chord) /\ IsSome(chord.val.bass)) =>
        LET bass_pc == chord.val.bass.val.midi % 12
        IN  /\ bass_pc # chord.val.root.midi % 12
            /\ bass_pc \in InputPitchClasses
            /\ Named =>
                  \E i \in 1..Len(text) :
                      /\ text[i] = "/"
                      /\ SubSeq(text, i + 1, Len(text)) = NOTE_NAMES[bass_pc + 1]

\* {60, 64, 67, 69} (C, E, G, A) gives A minor seventh over C, "Am7/C"
C26_Witness ==
    /\ phase = "named"
    /\ notes = {60, 64, 67, 69}
    /\ IsSome(chord)
    /\ chord.val.bass = Some([midi |-> 60])
    /\ text = <<"A", "m", "7", "/", "C">>

\* the degree of a tree chord in the key suggest works in
DegreeInTreeKey(c) == (c.root.midi - TreeKey) % 12

\* the two children of a node are the pair the table gives for its degree
ChildrenFromTable(node) ==
    LET degree == DegreeInTreeKey(node.chord)
        row == CASE degree = 0 -> <<5, "Major", 9, "Minor">>
                 [] degree = 2 -> <<7, "Major", 5, "Major">>
                 [] degree = 4 -> <<9, "Minor", 5, "Major">>
                 [] degree = 5 -> <<7, "Major", 0, "Major">>
                 [] degree = 7 -> <<0, "Major", 9, "Minor">>
                 [] degree = 9 -> <<2, "Minor", 5, "Major">>
                 [] OTHER -> <<-1, "none", -1, "none">>
    IN  /\ node.left.val.chord = TableChord(row[1], ModeQuality(row[2]))
        /\ node.right.val.chord = TableChord(row[3], ModeQuality(row[4]))

\* C27: both children of the root have a degree in {0,2,4,5,7,9} relative
\* to the key, the four grandchildren are the table's pairs for those
\* degrees, and every child and grandchild has no bass and a root in 60..71.
C27_ChildrenAreDiatonic ==
    phase = "suggested" =>
        LET children == {tree.val.left.val, tree.val.right.val}
            below == children \cup {n.left.val : n \in children}
                              \cup {n.right.val : n \in children}
        IN  /\ \A n \in children :
                  /\ DegreeInTreeKey(n.chord) \in {0, 2, 4, 5, 7, 9}
                  /\ ChildrenFromTable(n)
            /\ \A n \in below :
                  /\ n.chord.bass = None
                  /\ n.chord.root.midi \in 60..71

\* the tree of a chord on a non-diatonic degree of a given key, with a bass:
\* the root's children come from the fallback, the grandchildren do not
C27_Witness ==
    /\ phase = "suggested"
    /\ IsSome(key)
    /\ TreeDegree = 6
    /\ IsSome(chord.val.bass)
    /\ tree.val.left.val.chord.bass = None
    /\ DegreeInTreeKey(tree.val.left.val.chord) = 7
    /\ DegreeInTreeKey(tree.val.right.val.chord) = 0

\* the last step was the end of a tick
Ticked == phase = "tick" /\ IsSome(prev)

\* es is what is left of bs when entries are only removed from its front
LeftOf(es, bs) ==
    /\ Len(es) <= Len(bs)
    /\ es = SubSeq(bs, Len(bs) - Len(es) + 1, Len(bs))

\* C22: a tick whose snapshot detection finds no chord in leaves
\* current_chord and key as they were and adds no entry to the history; a
\* tick never takes current_chord from present to absent.
C22_NoMatchKeepsState ==
    Ticked =>
        /\ DetectOutcomes(notes) = {None} =>
              /\ current_chord = prev.val.current_chord
              /\ key = prev.val.key
              /\ LeftOf(entries, before)
        /\ IsSome(prev.val.current_chord) => IsSome(current_chord)

\* all keys were released after a chord had been recorded
C22_Witness ==
    /\ Ticked
    /\ notes = {}
    /\ chord = None
    /\ IsSome(current_chord)
    /\ current_chord = prev.val.current_chord
    /\ IsSome(key)
    /\ entries # << >>
    /\ entries = before

\* the tick ran detect and the chord it found is named otherwise than the
\* chord that was current, or none was current
DetectedRenamed ==
    /\ Ticked
    /\ IsSome(chord)
    /\ \/ ~IsSome(prev.val.current_chord)
       \/ Chord_name(prev.val.current_chord.val) # Chord_name(chord.val)

\* the tick ran detect and the chord it found has the name of the current one
DetectedSameName ==
    /\ Ticked
    /\ IsSome(chord)
    /\ IsSome(prev.val.current_chord)
    /\ Chord_name(prev.val.current_chord.val) = Chord_name(chord.val)

\* C23: a tick whose snapshot differs from the last one and whose detected
\* chord is named otherwise than current_chord (or there is none) makes the
\* chord the newest history entry, with age 0, and the current chord; a tick
\* whose detected chord has the name of current_chord adds no entry.
C23_ChangesAreRecorded ==
    /\ DetectedRenamed =>
          /\ entries # << >>
          /\ entries[Len(entries)] = [chord |-> chord.val, age |-> 0]
          /\ current_chord = chord
    /\ DetectedSameName => LeftOf(entries, before)

\* a chord of another name than the current one was detected and recorded
C23_Witness ==
    /\ DetectedRenamed
    /\ IsSome(prev.val.current_chord)
    /\ before # << >>
    /\ Len(entries) = Len(before) + 1
    /\ entries[Len(entries)].chord = chord.val

\* C24: the App that skips detection when the snapshot equals last_notes has
\* the current_chord, key and history of the App that detects on every tick.
C24_SkippingIsOnlyAnOptimization ==
    IsSome(redetect) =>
        /\ redetect.val.current_chord = current_chord
        /\ redetect.val.key = key
        /\ redetect.val.entries = entries

\* C25: the main thread holds the lock exactly while held_notes() takes and
\* clones the set, the callback exactly while it applies one message; the
\* clone equals the shared set while the lock is still held; the lock is not
\* the main thread's when detect or suggest runs, and the chord a tick works
\* with is a result of detect on the clone.
C25_SnapshotIsolation ==
    /\ lock = "app" <=> tick_pc \in {"locked", "cloned"}
    /\ lock = "callback" <=> IsSome(cb_msg)
    /\ tick_pc = "cloned" => notes = held_notes
    /\ tick_pc = "snapshot" => lock # "app"
    /\ phase = "render" => lock # "app"
    /\ (Ticked /\ IsSome(chord)) => chord \in DetectOutcomes(notes)
    /\ Ticked => last_notes = notes

\* the tick holds a clone of C, E, G and has yet to run detect, while the
\* callback, lock in hand, is taking the release of G
C25_Witness ==
    /\ tick_pc = "snapshot"
    /\ notes = {60, 64, 67}
    /\ held_notes = {60, 64, 67}
    /\ lock = "callback"
    /\ cb_msg = Some(<<128, 67, 0>>)

\* C28: the key is set exactly when the history is not empty, and the
\* newest entry of a non-empty history has the name of current_chord.
C28_KeyIffHistory ==
    /\ IsSome(key) <=> entries # << >>
    /\ entries # << >> =>
          /\ IsSome(current_chord)
          /\ Chord_name(entries[Len(entries)].chord) = Chord_name(current_chord.val)

\* a tick in Jam mode cut a history of 16 entries down to its 8 newest
C28_Witness ==
    /\ Ticked
    /\ fade
    /\ Len(before) = 16
    /\ Len(entries) = 8
    /\ IsSome(key)
    /\ Chord_name(entries[8].chord) = Chord_name(current_chord.val)

\* C29: a tick that detects a chord while the history is empty and the key
\* unset, as they are after 'c', puts the chord in the history and sets the
\* key to its root, whatever chord was current before.
C29_RecordsAfterClear ==
    (Ticked /\ IsSome(chord) /\ before = << >> /\ ~IsSome(prev.val.key)) =>
        /\ entries = <<[chord |-> chord.val, age |-> 0]>>
        /\ key = Some(chord.val.root)

====
